---- MODULE Spec2Model ----
\* Verification model of BananaSlice's Rust backend (src-tauri/src):
\* the generation request pipeline (api.rs, commands/generate.rs, keystore.rs)
\* and the compositing command (commands/composite.rs).
EXTENDS Integers, Sequences, FiniteSets, TLC

VARIABLES
    keyFile,      \* keystore.rs: content of api_key.txt, or NoFile
    pc,           \* generate_fill: "idle", "awaiting" (suspended at send().await),
                  \* "done", "panicked"
    genReq,       \* the GenerateRequest of the call in progress
    netRequest,   \* the GeminiRequest posted to the backend by this call
    sent,         \* number of requests this call has posted
    netResponse,  \* what came back from the network
    genResp,      \* the GenerateResponse returned to the frontend
    exBody,       \* response extraction: the response body text
    exResult,     \* response extraction: Result<String, ApiError>
    compReq,      \* composite_patch: the CompositeRequest
    compPatch,    \* composite_patch: the patch raster after resizing
    compRaster,   \* composite_patch: the raster handed to encode_image
    compResp,     \* composite_patch: how the call ended
    arIn,         \* calculate_aspect_ratio: <<width, height>>
    arOut,        \* calculate_aspect_ratio: the label returned
    arScale,      \* the factor k of a second call on <<k * width, k * height>>
    arScaled      \* calculate_aspect_ratio: the label returned by that call

vars == <<keyFile, pc, genReq, netRequest, sent, netResponse, genResp,
          exBody, exResult, compReq, compPatch, compRaster, compResp,
          arIn, arOut, arScale, arScaled>>

genVars  == <<keyFile, pc, genReq, netRequest, sent, netResponse, genResp>>
exVars   == <<exBody, exResult>>
compVars == <<compReq, compPatch, compRaster, compResp>>
arVars   == <<arIn, arOut, arScale, arScaled>>

\* Option<T>: None is the empty sequence, Some(v) the one-element sequence
None == <<>>
Some(v) == <<v>>
IsSome(o) == Len(o) = 1
Unwrap(o) == o[1]

\* ---------------------------------------------------------------------------
\* IEEE-754 binary floating point, as the Rust f64 / f32 operators compute it.
\* A finite value is sign s and magnitude m * 2^e, with m an unbounded natural
\* held as a little-endian sequence of limbs below Base.  Every operation
\* computes the exact result and rounds it once to p significant bits, ties
\* to even (p = 53 for f64, p = 24 for f32).  The exponent range is never
\* approached by the values of this program except by f64::MAX, which is
\* only compared.
\* ---------------------------------------------------------------------------
F64Bits == 53
F32Bits == 24
F64MaxExp == 971

Base == 2^15
LimbBits == CHOOSE k \in 1..30 : 2^k = Base

MaxOf(x, y) == IF x >= y THEN x ELSE y

Limb(a, i) == IF i >= 1 /\ i <= Len(a) THEN a[i] ELSE 0

NumLimbs(a) ==
    IF \A i \in 1..Len(a) : a[i] = 0 THEN 0
    ELSE CHOOSE n \in 1..Len(a) : a[n] # 0 /\ \A j \in (n+1)..Len(a) : a[j] = 0

Trim(a) == SubSeq(a, 1, NumLimbs(a))

\* number of significant bits of one limb
Width(v) == IF v = 0 THEN 0 ELSE CHOOSE k \in 1..LimbBits : 2^(k-1) <= v /\ v < 2^k

BitLen(a) ==
    IF NumLimbs(a) = 0 THEN 0
    ELSE LimbBits * (NumLimbs(a) - 1) + Width(a[NumLimbs(a)])

RECURSIVE NatToBig(_)
NatToBig(n) == IF n = 0 THEN <<>> ELSE <<n % Base>> \o NatToBig(n \div Base)

\* for values that fit a machine integer
RECURSIVE BigToNat(_)
BigToNat(a) == IF a = <<>> THEN 0 ELSE a[1] + Base * BigToNat(Tail(a))

RECURSIVE AddFrom(_, _, _, _)
AddFrom(a, b, i, c) ==
    IF i > MaxOf(Len(a), Len(b))
    THEN (IF c = 0 THEN <<>> ELSE <<c>>)
    ELSE <<(Limb(a, i) + Limb(b, i) + c) % Base>>
         \o AddFrom(a, b, i + 1, (Limb(a, i) + Limb(b, i) + c) \div Base)

BigAdd(a, b) == Trim(AddFrom(a, b, 1, 0))

\* a - b for a >= b
RECURSIVE SubFrom(_, _, _, _)
SubFrom(a, b, i, c) ==
    IF i > MaxOf(Len(a), Len(b))
    THEN <<>>
    ELSE <<(Limb(a, i) - Limb(b, i) - c) % Base>>
         \o SubFrom(a, b, i + 1, IF Limb(a, i) - Limb(b, i) - c < 0 THEN 1 ELSE 0)

BigSub(a, b) == Trim(SubFrom(a, b, 1, 0))

\* -1, 0, 1 as a < b, a = b, a > b
BigCmp(a, b) ==
    LET D == {i \in 1..MaxOf(Len(a), Len(b)) : Limb(a, i) # Limb(b, i)}
    IN  IF D = {} THEN 0
        ELSE LET k == CHOOSE i \in D : \A j \in D : j <= i
             IN  IF Limb(a, k) > Limb(b, k) THEN 1 ELSE -1

\* a * t for one limb t
RECURSIVE MulSmallFrom(_, _, _, _)
MulSmallFrom(a, t, i, c) ==
    IF i > Len(a)
    THEN (IF c = 0 THEN <<>> ELSE <<c>>)
    ELSE <<(a[i] * t + c) % Base>> \o MulSmallFrom(a, t, i + 1, (a[i] * t + c) \div Base)

MulSmall(a, t) == Trim(MulSmallFrom(a, t, 1, 0))

\* a * 2^k and floor(a / 2^k)
ShiftLeft(a, k) ==
    LET q == k \div LimbBits
        r == k % LimbBits
    IN  Trim([i \in 1..(Len(a) + q + 1) |->
                 ((Limb(a, i - q) * 2^r) % Base) + (Limb(a, i - q - 1) \div 2^(LimbBits - r))])

ShiftRight(a, k) ==
    LET q == k \div LimbBits
        r == k % LimbBits
    IN  Trim([i \in 1..Len(a) |->
                 (Limb(a, i + q) \div 2^r) + ((Limb(a, i + q + 1) % 2^r) * 2^(LimbBits - r))])

\* bit j of a, the lowest being bit 1
BitAt(a, j) == (Limb(a, (j - 1) \div LimbBits + 1) \div 2^((j - 1) % LimbBits)) % 2

\* the low k bits of a are all zero
LowBitsZero(a, k) ==
    /\ \A i \in 1..(k \div LimbBits) : Limb(a, i) = 0
    /\ Limb(a, k \div LimbBits + 1) % 2^(k % LimbBits) = 0

RECURSIVE MulFrom(_, _, _)
MulFrom(a, b, i) ==
    IF i > Len(b) THEN <<>>
    ELSE BigAdd(ShiftLeft(MulSmall(a, b[i]), LimbBits * (i - 1)), MulFrom(a, b, i + 1))

BigMul(a, b) == MulFrom(a, b, 1)

\* the largest limb t with t * d <= r, by binary search from bit b down
RECURSIVE DigitFrom(_, _, _, _)
DigitFrom(r, d, b, t) ==
    IF b < 0 THEN t
    ELSE IF BigCmp(MulSmall(d, t + 2^b), r) <= 0
         THEN DigitFrom(r, d, b - 1, t + 2^b)
         ELSE DigitFrom(r, d, b - 1, t)

\* long division of the limbs i..1 of a by d, with r the remainder so far
RECURSIVE DivFrom(_, _, _, _)
DivFrom(a, d, i, r) ==
    IF i = 0 THEN [q |-> <<>>, r |-> r]
    ELSE LET r1   == Trim(<<a[i]>> \o r)
             t    == DigitFrom(r1, d, LimbBits - 1, 0)
             rest == DivFrom(a, d, i - 1, BigSub(r1, MulSmall(d, t)))
         IN  [q |-> rest.q \o <<t>>, r |-> rest.r]

\* quotient and remainder of a / d, d # 0
BigDivMod(a, d) == DivFrom(a, Trim(d), Len(a), <<>>)

FNum(s, m, e) == [k |-> "num", s |-> s, m |-> m, e |-> e]
FInf(s) == [k |-> "inf", s |-> s, m |-> <<>>, e |-> 0]
FNaN == [k |-> "nan", s |-> 0, m |-> <<>>, e |-> 0]

FIsZero(x) == x.k = "num" /\ NumLimbs(x.m) = 0

\* round m * 2^e to p significant bits, ties to even; sticky is TRUE when the
\* exact value has nonzero bits below m
RoundTo(s, m, e, sticky, p) ==
    LET sh == BitLen(m) - p
    IN  IF sh <= 0 THEN FNum(s, Trim(m), e)
        ELSE LET up == /\ BitAt(m, sh) = 1
                       /\ \/ sticky
                          \/ ~LowBitsZero(m, sh - 1)
                          \/ BitAt(m, sh + 1) = 1
             IN  FNum(s, IF up THEN BigAdd(ShiftRight(m, sh), <<1>>)
                               ELSE ShiftRight(m, sh), e + sh)

\* u32 as f64, u8 as f32: exact
IntToFloat(n) == FNum(0, NatToBig(n), 0)

\* x / y for x, y >= 0
FDiv(x, y, p) ==
    IF x.k = "nan" \/ y.k = "nan" THEN FNaN
    ELSE IF x.k = "inf" THEN (IF y.k = "inf" THEN FNaN ELSE FInf(0))
    ELSE IF y.k = "inf" THEN FNum(0, <<>>, 0)
    ELSE IF FIsZero(y) THEN (IF FIsZero(x) THEN FNaN ELSE FInf(0))
    ELSE IF FIsZero(x) THEN FNum(0, <<>>, 0)
    ELSE LET k  == p + 2 + BitLen(y.m)
             qr == BigDivMod(ShiftLeft(x.m, k), y.m)
         IN  RoundTo(0, qr.q, x.e - y.e - k, NumLimbs(qr.r) # 0, p)

\* x - y for x, y >= 0
FSub(x, y, p) ==
    IF x.k = "nan" \/ y.k = "nan" THEN FNaN
    ELSE IF x.k = "inf" THEN (IF y.k = "inf" THEN FNaN ELSE FInf(0))
    ELSE IF y.k = "inf" THEN FInf(1)
    ELSE LET e0 == IF x.e <= y.e THEN x.e ELSE y.e
             mx == ShiftLeft(x.m, x.e - e0)
             my == ShiftLeft(y.m, y.e - e0)
         IN  IF BigCmp(mx, my) >= 0
             THEN RoundTo(0, BigSub(mx, my), e0, FALSE, p)
             ELSE RoundTo(1, BigSub(my, mx), e0, FALSE, p)

\* x + y for x, y >= 0
FAdd(x, y, p) ==
    IF x.k = "nan" \/ y.k = "nan" THEN FNaN
    ELSE IF x.k = "inf" \/ y.k = "inf" THEN FInf(0)
    ELSE LET e0 == IF x.e <= y.e THEN x.e ELSE y.e
         IN  RoundTo(0, BigAdd(ShiftLeft(x.m, x.e - e0), ShiftLeft(y.m, y.e - e0)),
                     e0, FALSE, p)

\* x * y for x, y >= 0
FMul(x, y, p) ==
    IF x.k = "nan" \/ y.k = "nan" THEN FNaN
    ELSE IF x.k = "inf" \/ y.k = "inf"
         THEN (IF FIsZero(x) \/ FIsZero(y) THEN FNaN ELSE FInf(0))
    ELSE RoundTo(0, BigMul(x.m, y.m), x.e + y.e, FALSE, p)

FAbs(x) == [x EXCEPT !.s = 0]

\* x < y for x, y >= 0; any comparison with NaN is false
FLt(x, y) ==
    IF x.k = "nan" \/ y.k = "nan" THEN FALSE
    ELSE IF x.k = "inf" THEN FALSE
    ELSE IF y.k = "inf" THEN TRUE
    ELSE IF FIsZero(y) THEN FALSE
    ELSE IF FIsZero(x) THEN TRUE
    ELSE IF BitLen(x.m) + x.e # BitLen(y.m) + y.e
         THEN BitLen(x.m) + x.e < BitLen(y.m) + y.e
    ELSE LET e0 == IF x.e <= y.e THEN x.e ELSE y.e
         IN  BigCmp(ShiftLeft(x.m, x.e - e0), ShiftLeft(y.m, y.e - e0)) < 0

\* f64::MAX = (2^53 - 1) * 2^971
F64Max == FNum(0, BigSub(ShiftLeft(<<1>>, F64Bits), <<1>>), F64MaxExp)

\* `as u8`: truncate toward zero, saturate to 0..255, NaN to 0
FloatToU8(x) ==
    IF x.k = "nan" THEN 0
    ELSE IF x.s = 1 THEN 0
    ELSE IF x.k = "inf" THEN 255
    ELSE IF BitLen(x.m) + x.e > 8 THEN 255
    ELSE IF x.e >= 0 THEN BigToNat(ShiftLeft(x.m, x.e))
    ELSE BigToNat(ShiftRight(x.m, 0 - x.e))

\* ---------------------------------------------------------------------------
\* api.rs: aspect ratio resolver
\* ---------------------------------------------------------------------------
\* the table of calculate_aspect_ratio, in source order
ratios ==
    << [r |-> FDiv(IntToFloat(21), IntToFloat(9), F64Bits),  name |-> "21:9"],
       [r |-> FDiv(IntToFloat(16), IntToFloat(9), F64Bits),  name |-> "16:9"],
       [r |-> FDiv(IntToFloat(5), IntToFloat(4), F64Bits),   name |-> "5:4"],
       [r |-> FDiv(IntToFloat(4), IntToFloat(3), F64Bits),   name |-> "4:3"],
       [r |-> FDiv(IntToFloat(3), IntToFloat(2), F64Bits),   name |-> "3:2"],
       [r |-> IntToFloat(1),                                 name |-> "1:1"],
       [r |-> FDiv(IntToFloat(4), IntToFloat(5), F64Bits),   name |-> "4:5"],
       [r |-> FDiv(IntToFloat(3), IntToFloat(4), F64Bits),   name |-> "3:4"],
       [r |-> FDiv(IntToFloat(2), IntToFloat(3), F64Bits),   name |-> "2:3"],
       [r |-> FDiv(IntToFloat(9), IntToFloat(16), F64Bits),  name |-> "9:16"] >>

\* the loop of calculate_aspect_ratio over the table t from entry i on;
\* LoopStep is one iteration, with diff = (ratio - r).abs()
RECURSIVE LoopFrom(_, _, _, _, _)
RECURSIVE LoopStep(_, _, _, _, _, _)
LoopStep(t, ratio, i, closest, min_diff, diff) ==
    IF FLt(diff, min_diff)
    THEN LoopFrom(t, ratio, i + 1, t[i].name, diff)
    ELSE LoopFrom(t, ratio, i + 1, closest, min_diff)

LoopFrom(t, ratio, i, closest, min_diff) ==
    IF i > Len(t) THEN closest
    ELSE LoopStep(t, ratio, i, closest, min_diff,
                  FAbs(FSub(ratio, t[i].r, F64Bits)))

\* u32 as f64, for a u32 held as a sequence of limbs: exact
U32ToFloat(n) == FNum(0, Trim(n), 0)

\* faulty variant: the divisor is height + 1
calculate_aspect_ratio_OffByOne(width, height) ==
    LoopFrom(ratios, FDiv(U32ToFloat(width),
                          FAdd(U32ToFloat(height), IntToFloat(1), F64Bits), F64Bits),
             1, "1:1", F64Max)

\* width and height are u32 values, held as sequences of limbs
calculate_aspect_ratio(width, height) ==
    LoopFrom(ratios, FDiv(U32ToFloat(width), U32ToFloat(height), F64Bits),
             1, "1:1", F64Max)


\* ---------------------------------------------------------------------------
\* commands/composite.rs: alpha blending of one pixel, <<r, g, b, a>>
\* ---------------------------------------------------------------------------
BlendChannel(o, b, alpha, inv_alpha) ==
    FloatToU8(FAdd(FMul(IntToFloat(o), alpha, F32Bits),
                   FMul(IntToFloat(b), inv_alpha, F32Bits), F32Bits))

\* faulty variant: the weights of overlay and base are exchanged
alpha_blend_Exchanged(base, overlay) ==
    LET alpha     == FDiv(IntToFloat(overlay[4]), IntToFloat(255), F32Bits)
        inv_alpha == FSub(IntToFloat(1), alpha, F32Bits)
    IN  << BlendChannel(overlay[1], base[1], inv_alpha, alpha),
           BlendChannel(overlay[2], base[2], inv_alpha, alpha),
           BlendChannel(overlay[3], base[3], inv_alpha, alpha),
           255 >>

alpha_blend(base, overlay) ==
    LET alpha     == FDiv(IntToFloat(overlay[4]), IntToFloat(255), F32Bits)
        inv_alpha == FSub(IntToFloat(1), alpha, F32Bits)
    IN  << BlendChannel(overlay[1], base[1], alpha, inv_alpha),
           BlendChannel(overlay[2], base[2], alpha, inv_alpha),
           BlendChannel(overlay[3], base[3], alpha, inv_alpha),
           255 >>

\* a raster is width, height and the pixels in row-major order
Raster(width, height, pixels) == [width |-> width, height |-> height, pixels |-> pixels]
EmptyRaster == Raster(0, 0, <<>>)

get_pixel(img, x, y) == img.pixels[y * img.width + x + 1]

put_pixel(img, x, y, pixel) ==
    [img EXCEPT !.pixels[y * img.width + x + 1] = pixel]

\* u32 arithmetic on naturals held as limbs
U32Bits == 32
U32Max == BigSub(ShiftLeft(<<1>>, U32Bits), <<1>>)
U32Overflows(v) == BitLen(v) > U32Bits
U32Wrap(v) == BigSub(v, ShiftLeft(ShiftRight(v, U32Bits), U32Bits))

\* the compositing loop from patch pixel k on (enumerate_pixels is row-major),
\* with the additions wrapping as in a build without overflow checks;
\* CompositeLoopStep is one iteration, for the pixel k of the patch
RECURSIVE CompositeFrom(_, _, _, _, _)
RECURSIVE CompositeLoopStep(_, _, _, _, _, _, _)
CompositeLoopStep(result, patch, x, y, k, target_x, target_y) ==
    IF /\ BigCmp(target_x, NatToBig(result.width)) < 0
       /\ BigCmp(target_y, NatToBig(result.height)) < 0
    THEN CompositeFrom(
             put_pixel(result, BigToNat(target_x), BigToNat(target_y),
                       alpha_blend(get_pixel(result, BigToNat(target_x), BigToNat(target_y)),
                                   get_pixel(patch, (k - 1) % patch.width,
                                             (k - 1) \div patch.width))),
             patch, x, y, k + 1)
    ELSE CompositeFrom(result, patch, x, y, k + 1)

CompositeFrom(result, patch, x, y, k) ==
    IF k > patch.width * patch.height THEN result
    ELSE CompositeLoopStep(result, patch, x, y, k,
                           U32Wrap(BigAdd(x, NatToBig((k - 1) % patch.width))),
                           U32Wrap(BigAdd(y, NatToBig((k - 1) \div patch.width))))

\* some request.x + px or request.y + py exceeds u32
LoopOverflows(patch, x, y) ==
    \E k \in 1..(patch.width * patch.height) :
        \/ U32Overflows(BigAdd(x, NatToBig((k - 1) % patch.width)))
        \/ U32Overflows(BigAdd(y, NatToBig((k - 1) \div patch.width)))

\* str::to_lowercase on the letters of the format tokens
UpperCase == <<"B", "E", "G", "J", "M", "N", "P", "W">>
LowerCase == <<"b", "e", "g", "j", "m", "n", "p", "w">>

to_lowercase(str) ==
    [i \in 1..Len(str) |->
        IF \E u \in 1..Len(UpperCase) : UpperCase[u] = str[i]
        THEN LowerCase[CHOOSE u \in 1..Len(UpperCase) : UpperCase[u] = str[i]]
        ELSE str[i]]

\* the ImageFormat encode_image selects
\* faulty variant: the token is compared as it is given
image_format_CaseSensitive(format) ==
    IF format \in {<<"j", "p", "g">>, <<"j", "p", "e", "g">>} THEN "Jpeg"
    ELSE IF format = <<"w", "e", "b", "p">> THEN "WebP"
    ELSE "Png"

image_format(format) ==
    IF to_lowercase(format) \in {<<"j", "p", "g">>, <<"j", "p", "e", "g">>} THEN "Jpeg"
    ELSE IF to_lowercase(format) = <<"w", "e", "b", "p">> THEN "WebP"
    ELSE "Png"

\* DynamicImage::write_to of an RGBA8 image: whether the JPEG encoder takes
\* RGBA8, and whether a WebP encoder is built in, depends on the version and
\* the features of the image crate; the PNG encoder takes RGBA8
WriteOutcomes(fmt) ==
    IF fmt = "Jpeg" THEN {"ok", "unsupported color type"}
    ELSE IF fmt = "WebP" THEN {"ok", "unsupported format"}
    ELSE {"ok"}

\* encode_image with the outcome of write_to: Ok(base64) or Err(message)
encode_image(img, format, written) ==
    IF written = "ok"
    THEN [ok |-> TRUE, base64 |-> [format |-> image_format(format), raster |-> img],
          message |-> <<>>]
    ELSE [ok |-> FALSE, base64 |-> [format |-> image_format(format), raster |-> EmptyRaster],
          message |-> <<"Failed to encode image: ", written>>]

\* decode_image: an encoded image either fails to decode or yields its raster
Undecodable == [ok |-> FALSE, raster |-> EmptyRaster]
Encoded(img) == [ok |-> TRUE, raster |-> img]

DecodeFailed ==
    [panicked |-> FALSE, success |-> FALSE, image_base64 |-> None,
     error |-> Some(<<"Failed to decode">>)]

Panicked == [panicked |-> TRUE, success |-> FALSE, image_base64 |-> None, error |-> None]

ToCompositeResponse(enc) ==
    IF enc.ok
    THEN [panicked |-> FALSE, success |-> TRUE, image_base64 |-> Some(enc.base64),
          error |-> None]
    ELSE [panicked |-> FALSE, success |-> FALSE, image_base64 |-> None,
          error |-> Some(enc.message)]

\* ---------------------------------------------------------------------------
\* keystore.rs: the key file
\* ---------------------------------------------------------------------------
\* a string is a sequence of characters
Whitespace == {" "}

\* str::trim
Trimmed(str) ==
    LET I == {i \in 1..Len(str) : str[i] \notin Whitespace}
    IN  IF I = {} THEN <<>>
        ELSE SubSeq(str, CHOOSE i \in I : \A j \in I : i <= j,
                         CHOOSE i \in I : \A j \in I : j <= i)

\* the file system entry of api_key.txt: None when the file does not exist
keystore_store_api_key(api_key) == Some(api_key)

keystore_delete_api_key(file) == None

\* faulty variant: the content is not trimmed before it is tested
keystore_get_api_key_Untrimmed(file) ==
    IF ~IsSome(file) THEN None
    ELSE IF Unwrap(file) = <<>> THEN None
    ELSE Some(Unwrap(file))

\* Ok(key) is Some(key), Err(KeyNotFound) is None
keystore_get_api_key(file) ==
    IF ~IsSome(file) THEN None
    ELSE IF Trimmed(Unwrap(file)) = <<>> THEN None
    ELSE Some(Trimmed(Unwrap(file)))

keystore_has_api_key(file) == IsSome(keystore_get_api_key(file))

\* ---------------------------------------------------------------------------
\* api.rs: request building
\* ---------------------------------------------------------------------------
ImagePng == <<"i", "m", "a", "g", "e", "/", "p", "n", "g">>
ImageJpeg == <<"i", "m", "a", "g", "e", "/", "j", "p", "e", "g">>
TextPlain == <<"t", "e", "x", "t", "/", "p", "l", "a", "i", "n">>
ImagePrefix == <<"i", "m", "a", "g", "e", "/">>

\* str::starts_with
StartsWith(str, prefix) ==
    Len(str) >= Len(prefix) /\ SubSeq(str, 1, Len(prefix)) = prefix

\* A base64 string handed in by the frontend: whether it decodes as base64,
\* how many bytes it decodes to, whether they start with the PNG signature,
\* and bytes 16..19 and 20..23 read as big-endian integers.
PngHeaderLen == 24

Base64Image(name, base64, len, magic, width, height) ==
    [name |-> name, base64 |-> base64, len |-> len, magic |-> magic,
     width |-> width, height |-> height]

PngWide  == Base64Image("pngWide",  TRUE,  PngHeaderLen, TRUE,  8, 3)
PngTall  == Base64Image("pngTall",  TRUE,  PngHeaderLen, TRUE,  3, 4)
Jpeg     == Base64Image("jpeg",     TRUE,  PngHeaderLen, FALSE, 8, 3)
ShortPng == Base64Image("shortPng", TRUE,  PngHeaderLen - 1, TRUE, 8, 3)
BadData  == Base64Image("badData",  FALSE, 0, FALSE, 0, 0)

get_image_dimensions(base64_data) ==
    IF ~base64_data.base64 THEN None
    ELSE IF base64_data.len < PngHeaderLen THEN None
    ELSE IF ~base64_data.magic THEN None
    ELSE Some(<<base64_data.width, base64_data.height>>)

to_gemini_model(model) ==
    IF model = "NanoBanana" THEN "gemini-2.5-flash-image"
    ELSE "gemini-3-pro-image-preview"

\* commands/generate.rs: the model selector of the request
ParseModel(model) ==
    IF model = "nano-banana-pro" THEN "NanoBananaPro" ELSE "NanoBanana"

InlineDataPart(data) == [kind |-> "InlineData", mime_type |-> ImagePng, data |-> data]
TextPartOf(text) == [kind |-> "Text", text |-> text]

\* the two prompt templates, with the caller's prompt inserted
PromptText(prompt, reference_images) ==
    IF reference_images = <<>>
    THEN [template |-> "Edit this image", prompt |-> prompt]
    ELSE [template |-> "Edit the first image", prompt |-> prompt]

\* faulty variant: the reference images are pushed in reverse order
BuildParts_RefsReversed(prompt, image_base64, mask_base64, reference_images) ==
    <<InlineDataPart(image_base64), InlineDataPart(mask_base64)>>
    \o [i \in 1..Len(reference_images) |->
           InlineDataPart(reference_images[Len(reference_images) + 1 - i])]
    \o <<TextPartOf(PromptText(prompt, reference_images))>>

BuildParts(prompt, image_base64, mask_base64, reference_images) ==
    <<InlineDataPart(image_base64), InlineDataPart(mask_base64)>>
    \o [i \in 1..Len(reference_images) |-> InlineDataPart(reference_images[i])]
    \o <<TextPartOf(PromptText(prompt, reference_images))>>

\* faulty variant: the aspect ratio is set whether or not there are reference images
BuildImageConfig_Always(image_base64, reference_images) ==
    IF IsSome(get_image_dimensions(image_base64))
    THEN Some([aspect_ratio |->
                 calculate_aspect_ratio(
                     NatToBig(Unwrap(get_image_dimensions(image_base64))[1]),
                     NatToBig(Unwrap(get_image_dimensions(image_base64))[2]))])
    ELSE None

BuildImageConfig(image_base64, reference_images) ==
    IF reference_images # <<>>
    THEN IF IsSome(get_image_dimensions(image_base64))
         THEN Some([aspect_ratio |->
                      calculate_aspect_ratio(
                          NatToBig(Unwrap(get_image_dimensions(image_base64))[1]),
                          NatToBig(Unwrap(get_image_dimensions(image_base64))[2]))])
         ELSE None
    ELSE None

BuildRequest(api_key, model, prompt, image_base64, mask_base64, reference_images) ==
    [url      |-> [model |-> to_gemini_model(model), key |-> api_key],
     contents |-> <<[parts |-> BuildParts(prompt, image_base64, mask_base64,
                                          reference_images)]>>,
     generation_config |->
         [response_modalities |-> <<"IMAGE">>,
          image_config |-> BuildImageConfig(image_base64, reference_images)]]

\* ---------------------------------------------------------------------------
\* api.rs: response parsing and extraction
\* ---------------------------------------------------------------------------
Ok(data) == [ok |-> TRUE, data |-> data, kind |-> "Ok", message |-> ""]
Err(kind, message) == [ok |-> FALSE, data |-> "", kind |-> kind, message |-> message]

\* faulty variant: the last image part of the candidate instead of the first
ScanParts_LastImage(parts, j) ==
    LET I == {n \in j..Len(parts) :
                 /\ IsSome(parts[n].inline_data)
                 /\ StartsWith(Unwrap(parts[n].inline_data).mime_type, ImagePrefix)}
    IN  IF I = {} THEN None
        ELSE Some(Unwrap(parts[CHOOSE n \in I : \A m \in I : m <= n].inline_data).data)

\* the scan of one candidate's parts from part j on: Some(data) of the first
\* part with image inline data
RECURSIVE ScanParts(_, _)
ScanParts(parts, j) ==
    IF j > Len(parts) THEN None
    ELSE IF /\ IsSome(parts[j].inline_data)
            /\ StartsWith(Unwrap(parts[j].inline_data).mime_type, ImagePrefix)
         THEN Some(Unwrap(parts[j].inline_data).data)
         ELSE ScanParts(parts, j + 1)

\* faulty variant: only the candidate at i is scanned
ScanCandidates_FirstOnly(candidates, i) ==
    IF i > Len(candidates) THEN Err("NoImageGenerated", "")
    ELSE IF IsSome(ScanParts(candidates[i].content.parts, 1))
         THEN Ok(Unwrap(ScanParts(candidates[i].content.parts, 1)))
         ELSE Err("NoImageGenerated", "")

RECURSIVE ScanCandidates(_, _)
ScanCandidates(candidates, i) ==
    IF i > Len(candidates) THEN Err("NoImageGenerated", "")
    ELSE IF IsSome(ScanParts(candidates[i].content.parts, 1))
         THEN Ok(Unwrap(ScanParts(candidates[i].content.parts, 1)))
         ELSE ScanCandidates(candidates, i + 1)

\* faulty variant: the candidates are scanned before the error object is looked at
Extract_CandidatesFirst(gemini_response) ==
    IF /\ IsSome(gemini_response.candidates)
       /\ ScanCandidates(Unwrap(gemini_response.candidates), 1).ok
    THEN ScanCandidates(Unwrap(gemini_response.candidates), 1)
    ELSE IF IsSome(gemini_response.error)
         THEN Err("ApiError", Unwrap(gemini_response.error).message)
         ELSE Err("NoImageGenerated", "")

\* a parsed GeminiResponse to the result of generate_fill
Extract(gemini_response) ==
    IF IsSome(gemini_response.error)
    THEN Err("ApiError", Unwrap(gemini_response.error).message)
    ELSE IF ~IsSome(gemini_response.candidates)
         THEN Err("NoImageGenerated", "")
         ELSE ScanCandidates(Unwrap(gemini_response.candidates), 1)

\* &response_text[..response_text.len().min(200)] panics when the end of the
\* range is not on a character boundary; no ApiError is produced
SlicePanic ==
    [ok |-> FALSE, data |-> "", kind |-> "panic",
     message |-> "byte index is not a char boundary"]

\* a response body: text that serde_json either rejects or parses into a
\* GeminiResponse; the excerpt of a rejected text is its first 200 bytes
ParseAndExtract(body) ==
    IF ~body.parses
    THEN IF body.boundary THEN Err("ParseError", "excerpt") ELSE SlicePanic
    ELSE Extract(body.json)

\* thiserror's Display of ApiError
ErrorString(e) ==
    IF e.kind = "RequestFailed" THEN <<"HTTP request failed: ", e.message>>
    ELSE IF e.kind = "ApiError" THEN <<"API returned error: ", e.message>>
    ELSE IF e.kind = "ParseError" THEN <<"Failed to parse response: ", e.message>>
    ELSE <<"No image generated">>

\* commands/generate.rs: the GenerateResponse for a result of the client
ToGenerateResponse(result) ==
    IF result.ok
    THEN [success |-> TRUE, image_base64 |-> Some(result.data), error |-> None]
    ELSE [success |-> FALSE, image_base64 |-> None, error |-> Some(ErrorString(result))]

KeyMissingResponse ==
    [success |-> FALSE, image_base64 |-> None,
     error |-> Some(<<"API key not configured. Please set your Gemini API key in Settings.">>)]

\* ---------------------------------------------------------------------------
\* Inputs
\* ---------------------------------------------------------------------------
MaxRefs == 2
MaxParts == 3
MaxCandidates == 2
MaxWidth == 18
MaxHeight == 12

SeqsUpTo(S, n) == UNION {[1..k -> S] : k \in 0..n}

ApiKeys == {<<>>, <<" ">>, <<"k">>, <<" ", "k", " ">>}

SourceImages == {PngWide, PngTall, Jpeg, ShortPng, BadData}
MaskImages == {PngTall, BadData}
ReferenceImages == {PngWide, BadData}

GenerateRequests ==
    [model : {"nano-banana-pro", "unknown"}, prompt : {"a cat"},
     image_base64 : SourceImages, mask_base64 : MaskImages,
     reference_images : SeqsUpTo(ReferenceImages, MaxRefs)]

\* parts of a response candidate
TextOnly == [inline_data |-> None, text |-> Some("sorry")]
PngPart == [inline_data |-> Some([mime_type |-> ImagePng, data |-> "A"]), text |-> None]
JpegCaptioned ==
    [inline_data |-> Some([mime_type |-> ImageJpeg, data |-> "B"]), text |-> Some("caption")]
PlainData == [inline_data |-> Some([mime_type |-> TextPlain, data |-> "C"]), text |-> None]

ResponseParts == {TextOnly, PngPart, JpegCaptioned, PlainData}

\* sequences of at most n candidates that hold at most p parts in all
RECURSIVE CandidateSeqs(_, _)
CandidateSeqs(n, p) ==
    IF n = 0 THEN {<<>>}
    ELSE {<<>>} \cup
         UNION {{<<[content |-> [parts |-> ps]]>> \o rest :
                    ps \in [1..k -> ResponseParts], rest \in CandidateSeqs(n - 1, p - k)} :
                k \in 0..p}

GeminiErrors == {[message |-> "quota exceeded"]}

\* text that serde_json rejects; boundary tells whether the byte index
\* min(len, 200) of the text lies on a UTF-8 character boundary
Unparseable ==
    [parses |-> FALSE, boundary |-> TRUE, json |-> [candidates |-> None, error |-> None]]

\* rejected text longer than 200 bytes in which a multi-byte character
\* straddles byte 200
UnparseableSplit ==
    [parses |-> FALSE, boundary |-> FALSE, json |-> [candidates |-> None, error |-> None]]

\* response bodies with at most maxC candidates that hold at most maxP parts in all
Bodies(maxC, maxP) ==
    {Unparseable, UnparseableSplit} \cup
    {[parses |-> TRUE, boundary |-> TRUE, json |-> [candidates |-> c, error |-> e]] :
        c \in {None} \cup {Some(cs) : cs \in CandidateSeqs(maxC, maxP)},
        e \in {None} \cup {Some(g) : g \in GeminiErrors}}

\* what the network does with a posted request
NetworkOutcomes ==
    {[transport |-> t, body |-> Unparseable] : t \in {"send failed", "read failed"}}
    \cup {[transport |-> "ok", body |-> b] : b \in Bodies(1, 1)}

\* rasters: the colour of a pixel tells its position and its image
BaseWidth == 3
BaseHeight == 2
MaxPatchWidth == 2
MaxPatchHeight == 2

BaseAlphas == {255, 0}
PatchAlphas == {255, 128, 0}

BaseRaster(alpha) ==
    Raster(BaseWidth, BaseHeight,
           [k \in 1..(BaseWidth * BaseHeight) |->
               <<10 + ((k - 1) % BaseWidth), 20 + ((k - 1) \div BaseWidth), 30, alpha>>])

PatchRaster(width, height, alpha) ==
    Raster(width, height,
           [k \in 1..(width * height) |->
               <<200 + ((k - 1) % width), 100 + ((k - 1) \div width), 50, alpha>>])

BaseImages == {Undecodable} \cup {Encoded(BaseRaster(a)) : a \in BaseAlphas}

PatchImages ==
    {Undecodable} \cup
    {Encoded(PatchRaster(w, h, a)) :
        w \in 1..MaxPatchWidth, h \in 1..MaxPatchHeight, a \in PatchAlphas}

OffsetsX == {NatToBig(n) : n \in 0..(BaseWidth - 1)} \cup {U32Max}
OffsetsY == {NatToBig(n) : n \in 0..(BaseHeight - 1)} \cup {U32Max}

TargetSizes(patch) == {<<0, 0>>, <<1, 1>>, <<patch.raster.width, patch.raster.height>>}

FormatTokens == {<<"p", "n", "g">>, <<"J", "P", "G">>}

CompositeRequests ==
    {[base_image_base64 |-> b, patch_image_base64 |-> p, x |-> x, y |-> y,
      target_width |-> t[1], target_height |-> t[2], format |-> f] :
        b \in BaseImages, p \in PatchImages, x \in OffsetsX, y \in OffsetsY,
        t \in {<<0, 0>>, <<1, 1>>} \cup
              {<<w, h>> : w \in 1..MaxPatchWidth, h \in 1..MaxPatchHeight},
        f \in FormatTokens}

\* DynamicImage::resize_exact with Lanczos3: a copy when the size is already
\* the target size, otherwise a resampled raster of the target size
\* the largest k with k * width and k * height inside the u32 range
LargestScale(width, height) == BigDivMod(U32Max, NatToBig(MaxOf(width, height))).q

\* scale factors: small ones, one that takes the products past 16 bits, and
\* the largest the u32 range admits
Scales(width, height) ==
    {<<2>>, <<3>>, NatToBig(2^16 + 1), LargestScale(width, height)}

\* format tokens: recognized ones in several cases, the empty string, and
\* unrecognized ones, one of them a recognized token with a letter appended
EncodeTokens ==
    {<<>>, <<"p", "n", "g">>, <<"j", "p", "g">>, <<"J", "P", "G">>,
     <<"J", "p", "E", "g">>, <<"w", "e", "b", "p">>, <<"W", "E", "B", "P">>,
     <<"b", "m", "p">>, <<"j", "p", "g", "e">>}

\* requests that reach encode_image: both images decode and the patch lies
\* at the origin at its own size
EncodeRequests ==
    {q \in CompositeRequests :
        /\ q.base_image_base64.ok /\ q.patch_image_base64.ok
        /\ q.x = <<>> /\ q.y = <<>>
        /\ q.target_width = 0 /\ q.target_height = 0}

resize_exact(img, nwidth, nheight) ==
    IF <<nwidth, nheight>> = <<img.width, img.height>> THEN {img}
    ELSE {PatchRaster(nwidth, nheight, a) : a \in PatchAlphas}

\* ---------------------------------------------------------------------------
\* State machine
\* ---------------------------------------------------------------------------
GenInit ==
    /\ keyFile = None
    /\ pc = "idle"
    /\ genReq = None
    /\ netRequest = None
    /\ sent = 0
    /\ netResponse = None
    /\ genResp = None

ExIdle == exBody = Unparseable /\ exResult = None
ArIdle == arIn = <<1, 1>> /\ arOut = None /\ arScale = <<1>> /\ arScaled = None
CompIdle == compReq = None /\ compPatch = None /\ compRaster = None /\ compResp = None

\* commands/generate.rs set_api_key
set_api_key(api_key) ==
    /\ keyFile' = keystore_store_api_key(api_key)
    /\ UNCHANGED <<pc, genReq, netRequest, sent, netResponse, genResp>>
    /\ UNCHANGED <<exVars, compVars, arVars>>

\* commands/generate.rs delete_api_key
delete_api_key ==
    /\ keyFile' = keystore_delete_api_key(keyFile)
    /\ UNCHANGED <<pc, genReq, netRequest, sent, netResponse, genResp>>
    /\ UNCHANGED <<exVars, compVars, arVars>>

\* generate_fill from the command's entry to the client's send().await; the
\* debug images the command writes are diagnostics and are not modelled
generate_fill(request) ==
    /\ pc = "idle"
    /\ genReq' = Some(request)
    /\ netResponse' = None
    /\ IF ~IsSome(keystore_get_api_key(keyFile))
       THEN /\ pc' = "done"
            /\ netRequest' = None
            /\ sent' = 0
            /\ genResp' = Some(KeyMissingResponse)
       ELSE /\ pc' = "awaiting"
            /\ netRequest' = Some(BuildRequest(Unwrap(keystore_get_api_key(keyFile)),
                                               ParseModel(request.model), request.prompt,
                                               request.image_base64, request.mask_base64,
                                               request.reference_images))
            /\ sent' = 1
            /\ genResp' = None
    /\ UNCHANGED keyFile
    /\ UNCHANGED <<exVars, compVars, arVars>>

\* generate_fill from the network's answer to the command's return
generate_fill_resume(outcome) ==
    /\ pc = "awaiting"
    /\ netResponse' = Some(outcome)
    /\ IF outcome.transport = "ok" /\ ParseAndExtract(outcome.body) = SlicePanic
       THEN /\ pc' = "panicked"
            /\ genResp' = None
       ELSE /\ pc' = "done"
            /\ genResp' = Some(ToGenerateResponse(
                                 IF outcome.transport # "ok"
                                 THEN Err("RequestFailed", outcome.transport)
                                 ELSE ParseAndExtract(outcome.body)))
    /\ UNCHANGED <<keyFile, genReq, netRequest, sent>>
    /\ UNCHANGED <<exVars, compVars, arVars>>

\* the frontend takes the GenerateResponse; the call's values are dropped
invoke_returned ==
    /\ pc = "done"
    /\ pc' = "idle"
    /\ genReq' = None
    /\ netRequest' = None
    /\ sent' = 0
    /\ netResponse' = None
    /\ genResp' = None
    /\ UNCHANGED keyFile
    /\ UNCHANGED <<exVars, compVars, arVars>>

\* commands/composite.rs composite_patch; an addition that overflows u32
\* panics in a build with overflow checks and wraps in one without
composite_patch ==
    /\ IsSome(compReq) /\ compResp = None
    /\ LET request == Unwrap(compReq)
       IN  IF ~request.base_image_base64.ok \/ ~request.patch_image_base64.ok
           THEN /\ compPatch' = None
                /\ compRaster' = None
                /\ compResp' = Some(DecodeFailed)
           ELSE \E resized_patch \in
                      (IF request.target_width > 0 /\ request.target_height > 0
                       THEN resize_exact(request.patch_image_base64.raster,
                                         request.target_width, request.target_height)
                       ELSE {request.patch_image_base64.raster}) :
                  /\ compPatch' = Some(resized_patch)
                  /\ \/ /\ LoopOverflows(resized_patch, request.x, request.y)
                        /\ compRaster' = None
                        /\ compResp' = Some(Panicked)
                     \/ \E written \in WriteOutcomes(image_format(request.format)) :
                          /\ compRaster' =
                                 Some(CompositeFrom(request.base_image_base64.raster,
                                                    resized_patch, request.x, request.y, 1))
                          /\ compResp' =
                                 Some(ToCompositeResponse(
                                          encode_image(Unwrap(compRaster'),
                                                       request.format, written)))
    /\ UNCHANGED <<compReq, genVars, exVars, arVars>>

\* response extraction applied to one body
extract_response ==
    /\ exResult = None
    /\ exResult' = Some(ParseAndExtract(exBody))
    /\ UNCHANGED <<exBody, genVars, compVars, arVars>>

\* the aspect ratio resolver applied to one pair of dimensions
resolve_aspect_ratio ==
    /\ arOut = None
    /\ arOut' = Some(calculate_aspect_ratio(NatToBig(arIn[1]), NatToBig(arIn[2])))
    /\ UNCHANGED <<arIn, arScale, arScaled, genVars, exVars, compVars>>

\* the resolver applied to the same dimensions multiplied by arScale
resolve_scaled ==
    /\ IsSome(arOut)
    /\ arScaled = None
    /\ arScaled' = Some(calculate_aspect_ratio(BigMul(arScale, NatToBig(arIn[1])),
                                               BigMul(arScale, NatToBig(arIn[2]))))
    /\ UNCHANGED <<arIn, arOut, arScale, genVars, exVars, compVars>>

Init == GenInit /\ ExIdle /\ ArIdle /\ CompIdle

Next ==
    \/ \E api_key \in ApiKeys : set_api_key(api_key)
    \/ delete_api_key
    \/ \E request \in GenerateRequests : generate_fill(request)
    \/ \E outcome \in NetworkOutcomes : generate_fill_resume(outcome)
    \/ invoke_returned

Spec == Init /\ [][Next]_vars

InitExtract ==
    /\ GenInit /\ ArIdle /\ CompIdle
    /\ exBody \in Bodies(MaxCandidates, MaxParts)
    /\ exResult = None

NextExtract == extract_response

SpecExtract == InitExtract /\ [][NextExtract]_vars

InitComposite ==
    /\ GenInit /\ ExIdle /\ ArIdle
    /\ compReq \in {Some(r) : r \in
           {q \in CompositeRequests :
               <<q.target_width, q.target_height>> \in TargetSizes(q.patch_image_base64)}}
    /\ compPatch = None
    /\ compRaster = None
    /\ compResp = None

NextComposite == composite_patch

SpecComposite == InitComposite /\ [][NextComposite]_vars

InitEncode ==
    /\ GenInit /\ ExIdle /\ ArIdle
    /\ compReq \in {Some([q EXCEPT !.format = f]) : q \in EncodeRequests, f \in EncodeTokens}
    /\ compPatch = None
    /\ compRaster = None
    /\ compResp = None

NextEncode == composite_patch

SpecEncode == InitEncode /\ [][NextEncode]_vars

InitAspect ==
    /\ GenInit /\ ExIdle /\ CompIdle
    /\ arIn \in (1..MaxWidth) \X (1..MaxHeight)
    /\ arOut = None
    /\ arScale = <<1>>
    /\ arScaled = None

NextAspect == resolve_aspect_ratio

SpecAspect == InitAspect /\ [][NextAspect]_vars

InitScale ==
    /\ GenInit /\ ExIdle /\ CompIdle
    /\ arIn \in (1..MaxWidth) \X (1..MaxHeight)
    /\ arScale \in Scales(arIn[1], arIn[2])
    /\ arOut = None
    /\ arScaled = None

NextScale ==
    \/ resolve_aspect_ratio
    \/ resolve_scaled

SpecScale == InitScale /\ [][NextScale]_vars

\* ---------------------------------------------------------------------------
\* Properties of response extraction (SpecExtract)
\* ---------------------------------------------------------------------------
Extracted == IsSome(exResult)
ExJson == exBody.json
ExCandidates == IF IsSome(ExJson.candidates) THEN Unwrap(ExJson.candidates) ELSE <<>>

\* part j of candidate i carries inline data whose mime type begins with "image/"
IsImageAt(i, j) ==
    /\ IsSome(ExCandidates[i].content.parts[j].inline_data)
    /\ StartsWith(Unwrap(ExCandidates[i].content.parts[j].inline_data).mime_type,
                  ImagePrefix)

PartPositions ==
    UNION {{<<i, j>> : j \in 1..Len(ExCandidates[i].content.parts)} :
              i \in 1..Len(ExCandidates)}

ImagePositions == {p \in PartPositions : IsImageAt(p[1], p[2])}

Before(p, q) == p[1] < q[1] \/ (p[1] = q[1] /\ p[2] < q[2])

\* C1: a parsed body with a top-level error object yields ApiError with exactly
\* the error's message and never image data, whatever candidates it carries.
C1_ErrorTakesPrecedence ==
    (Extracted /\ exBody.parses /\ IsSome(ExJson.error)) =>
        /\ ~Unwrap(exResult).ok
        /\ Unwrap(exResult).kind = "ApiError"
        /\ Unwrap(exResult).message = Unwrap(ExJson.error).message
        /\ Unwrap(exResult).data = ""

C1_Witness ==
    /\ Extracted /\ exBody.parses /\ IsSome(ExJson.error)
    /\ ImagePositions # {}
    /\ Unwrap(exResult).kind = "ApiError"
    /\ Unwrap(exResult).message = "quota exceeded"

Posted == pc = "awaiting"
TheRequest == Unwrap(genReq)
TheParts == Unwrap(netRequest).contents[1].parts
TheConfig == Unwrap(netRequest).generation_config
NumRefs == Len(TheRequest.reference_images)

\* the PNG header of the source image can be read
HeaderReadable(img) == img.base64 /\ img.len >= PngHeaderLen /\ img.magic

\* C4: the parts list is source, mask, the references in input order, then
\* one text part: n + 2 image parts tagged image/png and the text part last.
C4_PartsOrder ==
    Posted =>
        /\ Len(Unwrap(netRequest).contents) = 1
        /\ Len(TheParts) = NumRefs + 3
        /\ \A i \in 1..(NumRefs + 2) :
              TheParts[i].kind = "InlineData" /\ TheParts[i].mime_type = ImagePng
        /\ TheParts[1].data = TheRequest.image_base64
        /\ TheParts[2].data = TheRequest.mask_base64
        /\ \A i \in 1..NumRefs : TheParts[i + 2].data = TheRequest.reference_images[i]
        /\ TheParts[NumRefs + 3].kind = "Text"

C4_Witness ==
    /\ Posted
    /\ TheRequest.reference_images = <<PngWide, BadData>>
    /\ TheParts[3].data = PngWide /\ TheParts[4].data = BadData
    /\ TheParts[5].kind = "Text"

\* C5: no request with a malformed base64 image segment is ever posted.
C5_MalformedRejected ==
    Posted =>
        \A i \in 1..Len(TheParts) :
            TheParts[i].kind = "InlineData" => TheParts[i].data.base64

\* C6 as stated: aspectRatio is set to the label of the source image's
\* dimensions whenever the reference list is non-empty, and omitted when it is
\* empty; the response modality is ["IMAGE"].
C6_AspectRatioWheneverRefs ==
    Posted =>
        /\ TheConfig.response_modalities = <<"IMAGE">>
        /\ NumRefs = 0 => ~IsSome(TheConfig.image_config)
        /\ NumRefs > 0 =>
              /\ IsSome(TheConfig.image_config)
              /\ Unwrap(TheConfig.image_config).aspect_ratio =
                     calculate_aspect_ratio(NatToBig(TheRequest.image_base64.width),
                                            NatToBig(TheRequest.image_base64.height))

\* C6 amended: aspectRatio is set to that label when the reference list is
\* non-empty and the source image decodes to at least 24 bytes that start with
\* the PNG signature; in every other case it is omitted.
C6_AspectRatioWhenPngAndRefs ==
    Posted =>
        /\ TheConfig.response_modalities = <<"IMAGE">>
        /\ (NumRefs = 0 \/ ~HeaderReadable(TheRequest.image_base64))
              => ~IsSome(TheConfig.image_config)
        /\ (NumRefs > 0 /\ HeaderReadable(TheRequest.image_base64)) =>
              /\ IsSome(TheConfig.image_config)
              /\ Unwrap(TheConfig.image_config).aspect_ratio =
                     calculate_aspect_ratio(NatToBig(TheRequest.image_base64.width),
                                            NatToBig(TheRequest.image_base64.height))

C6_Witness ==
    /\ Posted
    /\ NumRefs > 0
    /\ TheRequest.image_base64 = PngWide
    /\ TheRequest.mask_base64 = PngTall
    /\ IsSome(TheConfig.image_config)
    /\ Unwrap(TheConfig.image_config).aspect_ratio = "21:9"

\* ---------------------------------------------------------------------------
\* Properties of one generate_fill call (Spec)
\* ---------------------------------------------------------------------------
Answered == IsSome(netResponse)
TheOutcome == Unwrap(netResponse)

\* some part of some candidate of a parsed body carries image data
HasImagePart(json) ==
    /\ IsSome(json.candidates)
    /\ \E i \in 1..Len(Unwrap(json.candidates)) :
          \E j \in 1..Len(Unwrap(json.candidates)[i].content.parts) :
              LET part == Unwrap(json.candidates)[i].content.parts[j]
              IN  /\ IsSome(part.inline_data)
                  /\ StartsWith(Unwrap(part.inline_data).mime_type, ImagePrefix)

\* a transport failure, an unparseable body, an API error or no image
FailedOutcome(o) ==
    \/ o.transport # "ok"
    \/ ~o.body.parses
    \/ IsSome(o.body.json.error)
    \/ ~HasImagePart(o.body.json)

\* C12: a call posts at most one request; once the network has answered, the
\* call has ended with a GenerateResponse, which for a failed outcome is
\* success = false with no image and an error string, and which, when it is a
\* success, carries an image and no error.
C12_OneRequestNoRetry ==
    /\ sent <= 1
    /\ Answered =>
          /\ sent = 1
          /\ IsSome(genResp)
          /\ FailedOutcome(TheOutcome) =>
                /\ ~Unwrap(genResp).success
                /\ Unwrap(genResp).image_base64 = None
                /\ IsSome(Unwrap(genResp).error)
          /\ Unwrap(genResp).success =>
                /\ IsSome(Unwrap(genResp).image_base64)
                /\ Unwrap(genResp).error = None

\* the key file exists and holds something other than whitespace
KeyConfigured ==
    /\ IsSome(keyFile)
    /\ \E i \in 1..Len(Unwrap(keyFile)) : Unwrap(keyFile)[i] \notin Whitespace

\* C14: whatever commands came before, a step posts a request only from a
\* state in which the key file exists with non-blank content, which is the
\* state in which has_api_key is true; a generate_fill call started in any
\* other state returns the "API key not configured" failure and posts nothing.
C14_RequestOnlyWithKey ==
    [][ /\ KeyConfigured <=> keystore_has_api_key(keyFile)
        /\ sent' > sent => KeyConfigured
        /\ (pc = "idle" /\ pc' # "idle" /\ ~KeyConfigured) =>
              /\ pc' = "done"
              /\ genResp' = Some(KeyMissingResponse)
              /\ sent' = 0
              /\ netRequest' = None ]_vars

\* a call made while the stored key is whitespace only has been refused
C14_Witness ==
    /\ keyFile = Some(<<" ">>)
    /\ pc = "done"
    /\ IsSome(genReq)
    /\ genResp = Some(KeyMissingResponse)
    /\ sent = 0

\* ---------------------------------------------------------------------------
\* Properties of the aspect ratio resolver (SpecAspect)
\* ---------------------------------------------------------------------------
\* the table as exact fractions, in the order of the specification
LabelTable ==
    << <<21, 9, "21:9">>, <<16, 9, "16:9">>, <<5, 4, "5:4">>, <<4, 3, "4:3">>,
       <<3, 2, "3:2">>, <<1, 1, "1:1">>, <<4, 5, "4:5">>, <<3, 4, "3:4">>,
       <<2, 3, "2:3">>, <<9, 16, "9:16">> >>

Abs(n) == IF n < 0 THEN 0 - n ELSE n

\* |w/h - entry i| <= |w/h - entry j|, in exact arithmetic
NoFarther(w, h, i, j) ==
    Abs(w * LabelTable[i][2] - LabelTable[i][1] * h) * LabelTable[j][2]
        <= Abs(w * LabelTable[j][2] - LabelTable[j][1] * h) * LabelTable[i][2]

\* the first entry at minimum distance from w/h
FirstClosest(w, h) ==
    CHOOSE i \in 1..Len(LabelTable) :
        /\ \A j \in 1..Len(LabelTable) : NoFarther(w, h, i, j)
        /\ \A j \in 1..(i - 1) : ~NoFarther(w, h, j, i)

\* C10: the label returned is that of the table entry closest to width/height,
\* and of the first such entry in table order when two are equally close.
C10_ClosestFirstOnTie ==
    IsSome(arOut) => Unwrap(arOut) = LabelTable[FirstClosest(arIn[1], arIn[2])][3]

\* ---------------------------------------------------------------------------
\* Scale invariance of the aspect ratio resolver (SpecScale)
\* ---------------------------------------------------------------------------
\* C11: for k * width and k * height inside the u32 range, the label returned
\* for <<k * width, k * height>> is the label returned for <<width, height>>.
C11_ScaleInvariant ==
    (IsSome(arOut) /\ IsSome(arScaled)) => Unwrap(arScaled) = Unwrap(arOut)

\* a pair that is an exact tie in real arithmetic, scaled to the top of the
\* u32 range, has been resolved both ways
C11_Witness ==
    /\ arIn = <<17, 12>>
    /\ arScale = LargestScale(17, 12)
    /\ IsSome(arOut)
    /\ IsSome(arScaled)
    /\ Unwrap(arScaled) = "3:2"

\* ---------------------------------------------------------------------------
\* Properties of compositing (SpecComposite)
\* ---------------------------------------------------------------------------
Composited == IsSome(compRaster)
CReq == Unwrap(compReq)
CBase == CReq.base_image_base64.raster
CPatch == Unwrap(compPatch)
CResult == Unwrap(compRaster)

BasePositions == (0..(CBase.width - 1)) \X (0..(CBase.height - 1))
PatchPositions == (0..(CPatch.width - 1)) \X (0..(CPatch.height - 1))

PixelAt(img, p) == img.pixels[p[2] * img.width + p[1] + 1]

\* patch pixel q lands on base pixel p, by the true sums x + px and y + py
LandsOn(q, p) ==
    /\ BigCmp(BigAdd(CReq.x, NatToBig(q[1])), NatToBig(p[1])) = 0
    /\ BigCmp(BigAdd(CReq.y, NatToBig(q[2])), NatToBig(p[2])) = 0

\* the case of C7: an opaque patch at its native size, placed inside the base
OpaqueInside ==
    /\ Composited
    /\ <<CReq.target_width, CReq.target_height>>
           = <<CReq.patch_image_base64.raster.width, CReq.patch_image_base64.raster.height>>
    /\ \A q \in PatchPositions : PixelAt(CPatch, q)[4] = 255
    /\ \E x \in 0..CBase.width, y \in 0..CBase.height :
          /\ CReq.x = NatToBig(x) /\ CReq.y = NatToBig(y)
          /\ x + CPatch.width <= CBase.width
          /\ y + CPatch.height <= CBase.height

\* C7: an opaque patch of the target size placed inside the base replaces the
\* RGB values of exactly the rectangle it covers; every other pixel and the
\* size of the raster are those of the base.
C7_OpaquePatchReplacesRectangle ==
    OpaqueInside =>
        /\ CResult.width = CBase.width /\ CResult.height = CBase.height
        /\ \A p \in BasePositions :
              IF \E q \in PatchPositions : LandsOn(q, p)
              THEN \A q \in PatchPositions :
                      LandsOn(q, p) =>
                          /\ PixelAt(CResult, p)[1] = PixelAt(CPatch, q)[1]
                          /\ PixelAt(CResult, p)[2] = PixelAt(CPatch, q)[2]
                          /\ PixelAt(CResult, p)[3] = PixelAt(CPatch, q)[3]
              ELSE PixelAt(CResult, p) = PixelAt(CBase, p)

C7_Witness ==
    /\ OpaqueInside
    /\ CPatch.width = 2 /\ CPatch.height = 1
    /\ CReq.x = NatToBig(1) /\ CReq.y = NatToBig(1)
    /\ PixelAt(CResult, <<1, 1>>) = <<200, 100, 50, 255>>
    /\ PixelAt(CResult, <<2, 1>>) = <<201, 100, 50, 255>>
    /\ PixelAt(CResult, <<0, 1>>) = PixelAt(CBase, <<0, 1>>)

\* C8: for every u32 offset the call does not crash, and a base pixel is
\* written exactly when a patch pixel's true target x + px, y + py is that
\* pixel, in which case it holds the blend; every other base pixel is kept.
C8_NoWrapNoCrash ==
    (IsSome(compResp) /\ IsSome(compPatch)) =>
        /\ ~Unwrap(compResp).panicked
        /\ Composited
        /\ \A p \in BasePositions :
              IF \E q \in PatchPositions : LandsOn(q, p)
              THEN \A q \in PatchPositions :
                      LandsOn(q, p) =>
                          PixelAt(CResult, p) = alpha_blend(PixelAt(CBase, p), PixelAt(CPatch, q))
              ELSE PixelAt(CResult, p) = PixelAt(CBase, p)

\* C9: every pixel of the raster handed to the encoder has alpha 255.
C9_ResultOpaque ==
    Composited =>
        \A p \in BasePositions : PixelAt(CResult, p)[4] = 255

\* ---------------------------------------------------------------------------
\* Properties of encoding (SpecEncode)
\* ---------------------------------------------------------------------------
\* token is word in some mixture of upper and lower case
SameIgnoringCase(token, word) ==
    /\ Len(token) = Len(word)
    /\ \A i \in 1..Len(word) :
          \/ token[i] = word[i]
          \/ \E u \in 1..Len(LowerCase) : LowerCase[u] = word[i] /\ UpperCase[u] = token[i]

\* the format the token stands for
ClaimedFormat(token) ==
    IF \/ SameIgnoringCase(token, <<"j", "p", "g">>)
       \/ SameIgnoringCase(token, <<"j", "p", "e", "g">>)
    THEN "Jpeg"
    ELSE IF SameIgnoringCase(token, <<"w", "e", "b", "p">>) THEN "WebP"
    ELSE "Png"

EncodeReturned == Composited /\ IsSome(compResp)

\* C13: encode_image encodes in the format its token stands for, JPEG for
\* "jpg" and "jpeg" and WebP for "webp" in any case, PNG for every other token;
\* no token is refused, and with a token that stands for PNG composite_patch
\* returns success with the composited raster encoded as PNG.
C13_FormatFallback ==
    EncodeReturned =>
        /\ image_format(CReq.format) = ClaimedFormat(CReq.format)
        /\ Unwrap(compResp).success =>
              /\ Unwrap(Unwrap(compResp).image_base64).format = ClaimedFormat(CReq.format)
              /\ Unwrap(Unwrap(compResp).image_base64).raster = CResult
        /\ ClaimedFormat(CReq.format) = "Png" =>
              /\ Unwrap(compResp).success
              /\ Unwrap(compResp).error = None
        /\ ~Unwrap(compResp).success =>
              Unwrap(compResp).error \in
                  {Some(<<"Failed to encode image: ", w>>) :
                      w \in WriteOutcomes(ClaimedFormat(CReq.format)) \ {"ok"}}

\* composite_patch has returned a PNG for the empty token or for a token that
\* is none of the recognized ones
C13_Witness ==
    /\ EncodeReturned
    /\ CReq.format \in {<<"b", "m", "p">>, <<>>, <<"j", "p", "g", "e">>}
    /\ Unwrap(compResp).success
    /\ Unwrap(Unwrap(compResp).image_base64).format = "Png"
====
